---- MODULE Spec2Model ----
(***************************************************************************)
(* A model of gitdav's loose-object reader (internal/git/git.go) and of    *)
(* the part of the WebDAV adapter that calls it.                           *)
(*                                                                         *)
(* Bytes are integers 0..255 and byte strings are sequences of them, so    *)
(* that the scanners, the fmt verbs and the hex encoding are computed and  *)
(* not assumed.  Four specifications share the variables:                  *)
(*   SpecTree    the tree-record scanner and parseTree under every way of  *)
(*               delivering the body                                       *)
(*   Spec        the object store, readObject and the navigation API       *)
(*   SpecCommit  parseCommit                                               *)
(*   SpecOpen    repository discovery (Open)                               *)
(***************************************************************************)
EXTENDS Integers, Sequences, FiniteSets, TLC

VARIABLES
    \* --- SpecTree: one call of parseTree on a reader
    recs,      \* the records the tree body was built from
    body,      \* the (possibly truncated) tree body the reader holds
    reader,    \* how the reader hands the body over: "whole", "split", "faulty"
    sc,        \* the bufio.Scanner, t.Entries and the call's return value
    \* --- Spec: the object store and the navigation API
    store,     \* object id -> the loose object file of that id
    root,      \* Entries of the Tree the calls are made on (dir.root)
    handles,   \* the open file handles of the process
    head,      \* the Commit the adapter holds (its tree id), once read
    res,       \* what the last API call returned
    \* --- SpecCommit
    cin,       \* the commit body, as the lines it was built from
    commit,    \* the Commit returned by parseCommit
    \* --- SpecOpen
    fs,        \* depth of a directory -> what os.Stat says of its .git
    start,     \* filepath.Abs(p), as its components
    path,      \* the loop variable of Open
    repo       \* what Open returned

vars == <<recs, body, reader, sc, store, root, handles, head, res, cin, commit,
          fs, start, path, repo>>

treeVars == <<recs, body, reader, sc>>
navVars == <<store, root, handles, head, res>>
commitVars == <<cin, commit>>
openVars == <<fs, start, path, repo>>

\* The variables of the other specifications, at rest
NavIdle ==
    store = <<>> /\ root = <<>> /\ handles = <<>> /\ head = <<>> /\ res = <<>>
CommitIdle == cin = <<>> /\ commit = <<>>
OpenIdle == fs = <<>> /\ start = <<>> /\ path = <<>> /\ repo = <<>>
TreeIdle == recs = <<>> /\ body = <<>> /\ reader = "whole" /\ sc = <<>>

----------------------------------------------------------------------------
(* Byte strings                                                            *)

NUL == 0
SP == 32
IdLen == 20
RecordTail == 21

\* unicode.IsSpace on the ASCII range, as fmt's isSpace sees it
isSpace(b) == b \in {9, 10, 11, 12, 13, SP}
isNewline(b) == b = 10
isDigit(b) == b \in 48..57

Drop(s, n) == SubSeq(s, n + 1, Len(s))
Take(s, n) == SubSeq(s, 1, n)

\* bytes.IndexByte / strings.Index for one byte: 0-based offset, or -1
RECURSIVE IndexFrom(_, _, _)
IndexFrom(s, b, i) ==
    IF i > Len(s) THEN -1
    ELSE IF s[i] = b THEN i - 1
    ELSE IndexFrom(s, b, i + 1)
IndexByte(s, b) == IndexFrom(s, b, 1)

\* fmt "%x" of a byte string: two lowercase hex digits per byte
HexDigits == <<48, 49, 50, 51, 52, 53, 54, 55, 56, 57, 97, 98, 99, 100, 101, 102>>
RECURSIVE Hex(_)
Hex(s) ==
    IF s = <<>> THEN <<>>
    ELSE <<HexDigits[(Head(s) \div 16) + 1], HexDigits[(Head(s) % 16) + 1]>>
         \o Hex(Tail(s))

\* strconv.ParseUint(tok, 10, 64) of a run of decimal digits
RECURSIVE DecVal(_)
DecVal(d) ==
    IF d = <<>> THEN 0
    ELSE 10 * DecVal(Take(d, Len(d) - 1)) + (d[Len(d)] - 48)

----------------------------------------------------------------------------
(* fmt scanning (package fmt, as called by git.go)                         *)
(* Positions are 1-based indices of the next unread byte.                  *)

\* ss.SkipSpace with nlIsSpace = false: spaces are skipped, a newline is an
\* error.  Result: <<ok, position of the first non-space byte>>.
RECURSIVE SkipSpace(_, _)
SkipSpace(s, i) ==
    IF i > Len(s) THEN <<TRUE, i>>
    ELSE IF isNewline(s[i]) THEN <<FALSE, i>>
    ELSE IF isSpace(s[i]) THEN SkipSpace(s, i + 1)
    ELSE <<TRUE, i>>

\* ss.token(true, notSpace): the end (exclusive) of the run of non-space bytes
RECURSIVE TokenEnd(_, _)
TokenEnd(s, i) ==
    IF i > Len(s) \/ isSpace(s[i]) THEN i ELSE TokenEnd(s, i + 1)

\* ss.scanNumber: the end (exclusive) of the run of decimal digits
RECURSIVE DigitsEnd(_, _)
DigitsEnd(s, i) ==
    IF i > Len(s) \/ ~isDigit(s[i]) THEN i ELSE DigitsEnd(s, i + 1)

\* ss.advance on a space of the format: the input must hold a space (or be at
\* its end) and no newline; the spaces are consumed.
RECURSIVE SkipBlanks(_, _)
SkipBlanks(s, j) ==
    IF j <= Len(s) /\ isSpace(s[j]) /\ ~isNewline(s[j])
    THEN SkipBlanks(s, j + 1) ELSE j

FormatSpace(s, i) ==
    IF i > Len(s) THEN <<TRUE, i>>
    ELSE IF ~isSpace(s[i]) \/ isNewline(s[i]) THEN <<FALSE, i>>
    ELSE <<TRUE, SkipBlanks(s, i + 1)>>

ScanFail == [ok |-> FALSE, mode |-> 0, name |-> <<>>]

\* fmt.Fscanf(bytes.NewReader(buf), "%d %s", &mode, &name), mode an
\* os.FileMode (uint32), name a string.  The modes explored stay far below
\* 2^32, so scanUint's overflow error is not among the outcomes.
ScanModeName(buf) ==
    LET Name(v, g) ==
            IF ~g[1] \/ g[2] > Len(buf) THEN ScanFail
            ELSE [ok |-> TRUE, mode |-> v,
                  name |-> SubSeq(buf, g[2], TokenEnd(buf, g[2]) - 1)]
        Space(v, f) ==
            IF ~f[1] THEN ScanFail ELSE Name(v, SkipSpace(buf, f[2]))
        Number(a, e) ==
            IF e = a THEN ScanFail
            ELSE Space(DecVal(SubSeq(buf, a, e - 1)), FormatSpace(buf, e))
        Start(a) ==
            IF ~a[1] \/ a[2] > Len(buf) THEN ScanFail
            ELSE Number(a[2], DigitsEnd(buf, a[2]))
    IN Start(SkipSpace(buf, 1))

----------------------------------------------------------------------------
(* scanTreeEntry and parseTree                                             *)

\* scanTreeEntry(data, atEOF): hasToken is "token != nil"
scanTreeEntry(data, atEOF) ==
    IF atEOF /\ Len(data) = 0
    THEN [advance |-> 0, hasToken |-> FALSE, token |-> <<>>, err |-> FALSE]
    ELSE
    LET recordLength == IndexByte(data, NUL) + RecordTail IN
    IF recordLength <= Len(data)
    THEN [advance |-> recordLength, hasToken |-> TRUE,
          token |-> Take(data, recordLength), err |-> FALSE]
    ELSE IF atEOF
    THEN [advance |-> 0, hasToken |-> FALSE, token |-> <<>>, err |-> TRUE]
    ELSE [advance |-> 0, hasToken |-> FALSE, token |-> <<>>, err |-> FALSE]

\* The scanner and the call, before the first sc.Scan()
NewScan(b) ==
    [rest |-> b,           \* what the reader has not handed over yet
     buf |-> <<>>,         \* s.buf[s.start:s.end]
     err |-> "nil",        \* s.err: "nil", "EOF" or "read"
     phase |-> "split",    \* where the loop of Scan stands: "split" or "read"
     tokens |-> <<>>,      \* every token sc.Bytes() has returned
     Entries |-> <<>>,     \* t.Entries
     done |-> FALSE,       \* parseTree has returned or panicked
     panic |-> FALSE,      \* it ended in a run-time panic
     tree |-> "nil",       \* the *Tree it returned: "nil" or "t"
     reterr |-> "nil"]     \* the error it returned: "nil", "entry",
                           \* "malformed" or "read"

\* parseTree returns (tr, e)
Return(s, tr, e) == [s EXCEPT !.done = TRUE, !.tree = tr, !.reterr = e]

\* sc.Err(): io.EOF is reported as no error
ScErr(e) == IF e = "EOF" THEN "nil" ELSE e

\* Scanner.setErr: the first error other than io.EOF is kept
SetErr(old, new) == IF old \in {"nil", "EOF"} THEN new ELSE old

\* The body of parseTree's loop on one token.  The os.Stat of the object's
\* path (its result is not used) changes nothing.
LoopBody(s, token) ==
    LET Entry(s1, p, sha) ==
            IF ~p.ok THEN Return(s1, "nil", "entry")
            ELSE [s1 EXCEPT !.Entries =
                     Append(@, [Name |-> p.name, Mode |-> p.mode, id |-> Hex(sha)])]
    IN
    IF Len(token) < RecordTail
    THEN \* buf[:len(buf)-21] with len(buf) < 21: slice bounds out of range
         [s EXCEPT !.done = TRUE, !.panic = TRUE, !.tokens = Append(@, token)]
    ELSE Entry([s EXCEPT !.tokens = Append(@, token)],
               ScanModeName(Take(token, Len(token) - RecordTail)),
               Drop(token, Len(token) - IdLen))

\* One pass of the loop of Scanner.Scan that holds data or an error: the split
\* function is called, and either a token reaches parseTree's loop body, or
\* the scan ends, or more input is needed.
SplitStep(s) ==
    LET Handle(r) ==
            IF r.err THEN Return(s, "t", ScErr(SetErr(s.err, "malformed")))
            ELSE IF r.hasToken
            THEN LoopBody([s EXCEPT !.buf = Drop(@, r.advance)], r.token)
            ELSE IF s.err # "nil" THEN Return(s, "t", ScErr(s.err))
            ELSE [s EXCEPT !.phase = "read"]
    IN
    IF s.buf = <<>> /\ s.err = "nil" THEN [s EXCEPT !.phase = "read"]
    ELSE Handle(scanTreeEntry(s.buf, s.err # "nil"))

\* s.r.Read returned k bytes and error e
ReadStep(s, k, e) ==
    [s EXCEPT !.buf = @ \o Take(s.rest, k), !.rest = Drop(@, k),
              !.err = e, !.phase = "split"]

----------------------------------------------------------------------------
(* SpecTree                                                                *)

MaxRecords == 2

Id1 == <<1, 35, 69, 103, 137, 171, 205, 239, 0, 17, 34, 51, 68, 85, 102, 119, 136, 153, 170, 255>>
Id2 == <<32, 10, 0, 0, 48, 49, 50, 51, 52, 53, 54, 55, 56, 57, 97, 98, 99, 100, 101, 9>>

Rec(m, n, i) == [mode |-> m, name |-> n, id |-> i]

\* "100644 a.txt", "40000 sub", "100644 a b", "100755 longfilename1"
RecordPool ==
    { Rec(<<49, 48, 48, 54, 52, 52>>, <<97, 46, 116, 120, 116>>, Id1),
      Rec(<<52, 48, 48, 48, 48>>, <<115, 117, 98>>, Id2),
      Rec(<<49, 48, 48, 54, 52, 52>>, <<97, SP, 98>>, Id1),
      Rec(<<49, 48, 48, 55, 53, 53>>,
          <<108, 111, 110, 103, 102, 105, 108, 101, 110, 97, 109, 101, 49>>, Id2) }

\* One record on disk: "<mode> <name>\0<20 raw id bytes>"
EncodeRec(r) == r.mode \o <<SP>> \o r.name \o <<NUL>> \o r.id

RECURSIVE EncodeTree(_)
EncodeTree(rs) ==
    IF rs = <<>> THEN <<>> ELSE EncodeRec(Head(rs)) \o EncodeTree(Tail(rs))

SeqsUpTo(S, n) == UNION { [1..k -> S] : k \in 0..n }

Front(s) == Take(s, Len(s) - 1)

\* The bodies: every record list, whole or cut inside its last record
TreeInit ==
    /\ NavIdle /\ CommitIdle /\ OpenIdle
    /\ recs \in SeqsUpTo(RecordPool, MaxRecords)
    /\ \E cut \in 0..Len(EncodeTree(recs)) :
          /\ recs # <<>> => cut > Len(EncodeTree(Front(recs)))
          /\ body = Take(EncodeTree(recs), cut)
    /\ reader \in {"whole", "split", "faulty"}
    /\ sc = NewScan(body)

\* The reader hands over k more bytes
ReadChunk ==
    /\ ~sc.done /\ sc.phase = "read" /\ sc.rest # <<>>
    /\ \E k \in 1..Len(sc.rest) :
          /\ reader = "whole" => k = Len(sc.rest)
          /\ sc' = ReadStep(sc, k, "nil")
    /\ UNCHANGED <<recs, body, reader, navVars, commitVars, openVars>>

\* The reader reports io.EOF, together with whatever it had not handed over
ReadEOF ==
    /\ ~sc.done /\ sc.phase = "read"
    /\ sc' = ReadStep(sc, Len(sc.rest), "EOF")
    /\ UNCHANGED <<recs, body, reader, navVars, commitVars, openVars>>

\* The read fails (a corrupt or truncated zlib stream)
ReadError ==
    /\ ~sc.done /\ sc.phase = "read" /\ reader = "faulty"
    /\ sc' = ReadStep(sc, 0, "read")
    /\ UNCHANGED <<recs, body, reader, navVars, commitVars, openVars>>

\* The scanner calls scanTreeEntry; parseTree handles the token
ScanSplit ==
    /\ ~sc.done /\ sc.phase = "split"
    /\ sc' = SplitStep(sc)
    /\ UNCHANGED <<recs, body, reader, navVars, commitVars, openVars>>

TreeNext == ReadChunk \/ ReadEOF \/ ReadError \/ ScanSplit

SpecTree == TreeInit /\ [][TreeNext]_vars

----------------------------------------------------------------------------
(* Claims on the tree parser, checked under SpecTree                       *)

\* What the claims expect of a body built from the records rs
ExpectedEntries(rs) ==
    [i \in 1..Len(rs) |->
        [Name |-> rs[i].name, Mode |-> DecVal(rs[i].mode), id |-> Hex(rs[i].id)]]

WellFormed == body = EncodeTree(recs)

IsPrefix(s, t) == Len(s) <= Len(t) /\ s = Take(t, Len(s))

\* The tokens the scanner emits when the whole body is in its buffer
RECURSIVE WholeTokens(_)
WholeTokens(data) ==
    LET r == scanTreeEntry(data, FALSE) IN
    IF r.hasToken THEN <<r.token>> \o WholeTokens(Drop(data, r.advance))
    ELSE <<>>

\* C1: a well-formed body of n records parses to exactly n Entries, in record
\* order, each with the record's mode, its whole name (spaces included) and
\* the hex form of its id.  Stated for a body handed over in one read.
C1_ParseYieldsRecords ==
    (reader = "whole" /\ WellFormed /\ sc.done) =>
        /\ ~sc.panic /\ sc.reterr = "nil" /\ sc.tree = "t"
        /\ sc.Entries = ExpectedEntries(recs)

\* C5: a body whose last record is incomplete ends in a malformed-record
\* error, with no Entry from that record and without a panic.  Stated for a
\* body handed over in one read.
C5_IncompleteRecordRejected ==
    (reader = "whole" /\ ~WellFormed /\ sc.done) =>
        /\ ~sc.panic /\ sc.reterr = "malformed"
        /\ Len(sc.Entries) < Len(recs)

\* C10: with a reader that does not fail, the tokens emitted never depend on
\* the chunk boundaries: at any time they are a prefix of the tokens of the
\* whole body, and all of them once the parse has run to its end.
C10_ChunkingIndependent ==
    reader # "faulty" =>
        /\ IsPrefix(sc.tokens, WholeTokens(body))
        /\ (sc.done /\ ~sc.panic /\ sc.reterr # "entry")
              => sc.tokens = WholeTokens(body)

----------------------------------------------------------------------------
(* parseCommit                                                             *)

KindBlob == <<98, 108, 111, 98>>
KindTree == <<116, 114, 101, 101>>
KindCommit == <<99, 111, 109, 109, 105, 116>>

\* bufio.ScanLines' dropCR
dropCR(s) == IF s # <<>> /\ s[Len(s)] = 13 THEN Front(s) ELSE s

\* The tokens of a bufio.Scanner with the default split function, ScanLines:
\* the lines without their terminator, a last unterminated line included
RECURSIVE Lines(_)
Lines(b) ==
    IF b = <<>> THEN <<>>
    ELSE LET i == IndexByte(b, 10) IN
         IF i >= 0 THEN <<dropCR(Take(b, i))>> \o Lines(Drop(b, i + 1))
         ELSE <<dropCR(b)>>

\* strings.TrimSpace
RECURSIVE TrimLeft(_)
TrimLeft(s) == IF s # <<>> /\ isSpace(Head(s)) THEN TrimLeft(Tail(s)) ELSE s
RECURSIVE TrimRight(_)
TrimRight(s) ==
    IF s # <<>> /\ isSpace(s[Len(s)]) THEN TrimRight(Front(s)) ELSE s
TrimSpace(s) == TrimRight(TrimLeft(s))

\* The loop of parseCommit over the lines ls, c.tree being tr before it
RECURSIVE CommitLoop(_, _)
CommitLoop(ls, tr) ==
    IF ls = <<>> THEN tr
    ELSE LET s == Head(ls)
             i == IndexByte(s, SP)
         IN IF i < 0 THEN CommitLoop(Tail(ls), tr)
            ELSE IF Take(s, i) = KindTree
            THEN CommitLoop(Tail(ls), TrimSpace(Drop(s, Len(KindTree) + 1)))
            ELSE CommitLoop(Tail(ls), tr)

\* parseCommit(r): c.tree of the Commit it returns
parseCommit(b) == CommitLoop(Lines(b), <<>>)

----------------------------------------------------------------------------
(* SpecCommit                                                              *)

MaxHeaderLines == 2
MaxMsgLines == 2

HexId1 == Hex(Id1)
HexId2 == Hex(Id2)

\* "parent <id>", "author x"
HeaderPool ==
    { <<112, 97, 114, 101, 110, 116, SP>> \o HexId1,
      <<97, 117, 116, 104, 111, 114, SP, 120>> }

\* "", "wip", "fix it", "tree shaking"
MsgPool ==
    { <<>>, <<119, 105, 112>>, <<102, 105, 120, SP, 105, 116>>,
      <<116, 114, 101, 101, SP, 115, 104, 97, 107, 105, 110, 103>> }

RECURSIVE JoinLines(_)
JoinLines(ls) ==
    IF ls = <<>> THEN <<>> ELSE Head(ls) \o <<10>> \o JoinLines(Tail(ls))

\* A commit body: the tree line, the other header lines, a blank line, the
\* message
EncodeCommit(c) ==
    JoinLines(<<KindTree \o <<SP>> \o c.tree>> \o c.hdrs \o <<(<<>>)>> \o c.msg)

CommitInit ==
    /\ TreeIdle /\ NavIdle /\ OpenIdle
    /\ cin \in [tree : {HexId1, HexId2},
                hdrs : SeqsUpTo(HeaderPool, MaxHeaderLines),
                msg : SeqsUpTo(MsgPool, MaxMsgLines)]
    /\ commit = [done |-> FALSE, tree |-> <<>>]

ParseCommit ==
    /\ ~commit.done
    /\ commit' = [done |-> TRUE, tree |-> parseCommit(EncodeCommit(cin))]
    /\ UNCHANGED <<cin, treeVars, navVars, openVars>>

CommitNext == ParseCommit

SpecCommit == CommitInit /\ [][CommitNext]_vars

\* C4: the tree id kept in the Commit is the value of the commit's tree line;
\* no other line, whatever it holds, changes it.
C4_TreeFieldRetained == commit.done => commit.tree = cin.tree

----------------------------------------------------------------------------
(* readObject and the navigation API                                       *)

\* The file of a loose object: absent, not a zlib stream, or the zlib stream
\* of the plaintext hdr \o <<NUL>> \o body
Missing == [state |-> "missing", hdr |-> <<>>, body |-> <<>>]
Garbage == [state |-> "garbage", hdr |-> <<>>, body |-> <<>>]
Obj(h, b) == [state |-> "zlib", hdr |-> h, body |-> b]
Plain(f) == f.hdr \o <<NUL>> \o f.body

HeaderFail == [ok |-> FALSE, kind |-> <<>>, length |-> 0, pos |-> 0]

\* fmt.Fscanf(fr, "%s %d\u0000", &kind, &length) on a reader that holds p.
\* pos is the number of bytes of the reader consumed when it returns: fr has
\* no UnreadRune, so the bytes fmt has read are gone from it.
MatchNullLookahead(p, a, e, neg, d, z) ==
    IF z = d THEN HeaderFail
    ELSE IF z > Len(p) \/ p[z] # NUL THEN HeaderFail
    ELSE [ok |-> TRUE, kind |-> SubSeq(p, a, e - 1),
          length |-> IF neg THEN 0 - DecVal(SubSeq(p, d, z - 1))
                     ELSE DecVal(SubSeq(p, d, z - 1)),
          pos |-> z + 1]

\* The end of the header scan: the digits p[d..z-1] of %d (a digit is needed),
\* then the literal \u0000 of the format, which must be the next byte and is
\* the last byte read; the kind is p[a..e-1]
MatchNull(p, a, e, neg, d, z) ==
    IF z = d THEN HeaderFail
    ELSE IF z > Len(p) \/ p[z] # NUL THEN HeaderFail
    ELSE [ok |-> TRUE, kind |-> SubSeq(p, a, e - 1),
          length |-> IF neg THEN 0 - DecVal(SubSeq(p, d, z - 1))
                     ELSE DecVal(SubSeq(p, d, z - 1)),
          pos |-> z]

ScanHeader(p) ==
    LET Digits(a, e, neg, d) == MatchNull(p, a, e, neg, d, DigitsEnd(p, d))
        Sign(a, e, g) ==
            IF ~g[1] \/ g[2] > Len(p) THEN HeaderFail
            ELSE Digits(a, e, p[g[2]] = 45,
                        IF p[g[2]] \in {43, 45} THEN g[2] + 1 ELSE g[2])
        Space(a, e, f) ==
            IF ~f[1] THEN HeaderFail ELSE Sign(a, e, SkipSpace(p, f[2]))
        Kind(a, e) == Space(a, e, FormatSpace(p, e))
        Start(a) ==
            IF ~a[1] \/ a[2] > Len(p) THEN HeaderFail
            ELSE Kind(a[2], TokenEnd(p, a[2]))
    IN Start(SkipSpace(p, 1))

MaxOpen == 2

NOpen == handles.leaked + handles.blobs

\* readObject(sha).  opened: whether os.Open returned a file, which nothing
\* in readObject closes; rest: what the returned reader still holds.
readObject(sha) ==
    LET nothing == [err |-> "nil", panic |-> FALSE, opened |-> 0,
                    kind |-> <<>>, length |-> 0, rest |-> <<>>]
        Header(p, h) ==
            IF ~h.ok THEN [nothing EXCEPT !.err = "header", !.opened = 1]
            ELSE [nothing EXCEPT !.opened = 1, !.kind = h.kind,
                                 !.length = h.length, !.rest = Drop(p, h.pos)]
        Inflate(p) == Header(p, ScanHeader(p))
    IN
    IF Len(sha) < 2 THEN [nothing EXCEPT !.panic = TRUE]
    ELSE IF sha \notin DOMAIN store \/ store[sha].state = "missing"
            \/ NOpen >= MaxOpen
    THEN [nothing EXCEPT !.err = "open"]
    ELSE IF store[sha].state = "garbage"
    THEN [nothing EXCEPT !.err = "zlib", !.opened = 1]
    ELSE Inflate(Plain(store[sha]))

\* parseTree on a reader that hands its body over in one read
RECURSIVE RunWhole(_)
RunWhole(s) ==
    IF s.done THEN s
    ELSE IF s.phase = "split" THEN RunWhole(SplitStep(s))
    ELSE IF s.rest # <<>> THEN RunWhole(ReadStep(s, Len(s.rest), "nil"))
    ELSE RunWhole(ReadStep(s, 0, "EOF"))

\* What a call returned.  sha: the object id handed to readObject (<<>> when
\* none was); held: the handles the call opened and has not closed.
NoResult ==
    [op |-> "none", arg |-> <<>>, sha |-> <<>>, err |-> "nil", panic |-> FALSE,
     held |-> 0, hdr |-> FALSE, Size |-> 0, stream |-> <<>>,
     tree |-> "nil", Entries |-> <<>>, ctree |-> <<>>]

Result(op, arg) == [NoResult EXCEPT !.op = op, !.arg = arg]

\* The loops of Tree.Blob and Tree.Tree: the index of the first entry named
\* name, 0 when there is none
FindLast(entries, name) ==
    IF \E i \in 1..Len(entries) : entries[i].Name = name
    THEN CHOOSE i \in 1..Len(entries) :
            /\ entries[i].Name = name
            /\ \A j \in (i + 1)..Len(entries) : entries[j].Name # name
    ELSE 0

FindEntry(entries, name) ==
    IF \E i \in 1..Len(entries) : entries[i].Name = name
    THEN CHOOSE i \in 1..Len(entries) :
            /\ entries[i].Name = name
            /\ \A j \in 1..(i - 1) : entries[j].Name # name
    ELSE 0

\* Tree.readBlob(sha), called for Blob(arg)
readBlob(arg, sha) ==
    LET Check(o, r) ==
            IF o.panic THEN [r EXCEPT !.panic = TRUE]
            ELSE IF o.err # "nil" THEN [r EXCEPT !.err = o.err]
            ELSE IF o.kind # KindBlob THEN [r EXCEPT !.err = "kind"]
            ELSE [r EXCEPT !.Size = o.length, !.stream = o.rest]
        Got(o) ==
            Check(o, [Result("Blob", arg) EXCEPT
                         !.sha = sha, !.held = o.opened,
                         !.hdr = o.err = "nil" /\ ~o.panic])
    IN Got(readObject(sha))

\* Commit.readTree(sha), called for op(arg); rc.Close() is deferred once
\* readObject has returned without error
readTree(op, arg, sha) ==
    LET Parsed(r, t) ==
            [r EXCEPT !.panic = t.panic, !.err = t.reterr, !.tree = t.tree,
                      !.Entries = IF t.tree = "t" THEN t.Entries ELSE <<>>]
        Check(o, r) ==
            IF o.panic THEN [r EXCEPT !.panic = TRUE]
            ELSE IF o.err # "nil" THEN [r EXCEPT !.err = o.err, !.held = o.opened]
            ELSE IF o.kind # KindTree THEN [r EXCEPT !.err = "kind"]
            ELSE Parsed(r, RunWhole(NewScan(o.rest)))
        Got(o) ==
            Check(o, [Result(op, arg) EXCEPT
                         !.sha = sha, !.hdr = o.err = "nil" /\ ~o.panic])
    IN Got(readObject(sha))

\* Repository.readCommit(sha)
readCommit(sha) ==
    LET Check(o, r) ==
            IF o.panic THEN [r EXCEPT !.panic = TRUE]
            ELSE IF o.err # "nil" THEN [r EXCEPT !.err = o.err, !.held = o.opened]
            ELSE IF o.kind # KindCommit THEN [r EXCEPT !.err = "kind"]
            ELSE [r EXCEPT !.ctree = parseCommit(o.rest)]
        Got(o) ==
            Check(o, [Result("Commit", sha) EXCEPT
                         !.sha = sha, !.hdr = o.err = "nil" /\ ~o.panic])
    IN Got(readObject(sha))

NotFound(op, arg) == [Result(op, arg) EXCEPT !.err = "notfound"]

----------------------------------------------------------------------------
(* Spec                                                                    *)

MaxEntries == 2

NameA == <<97, 46, 116, 120, 116>>
NameSub == <<115, 117, 98>>
NameZ == <<122, 122>>
Names == {NameA, NameSub, NameZ}

World == <<119, 111, 114, 108, 100>>

\* "40000 sub\0" and Id1: one tree record
SubRecord == <<52, 48, 48, 48, 48, SP, 115, 117, 98, NUL>> \o Id1

\* The object files explored: "blob 5" world, "blob 0", "blob -5" world,
\* "blub 5" world, "blob5" world, "tree 0", "tree 30" with one record,
\* "tree 39" with one record and a second cut before its null byte,
\* "commit 46" with a tree
\* line, "commit 9" without one
ObjectPool ==
    { Missing, Garbage,
      Obj(<<98, 108, 111, 98, SP, 53>>, World),
      Obj(<<98, 108, 111, 98, SP, 48>>, <<>>),
      Obj(<<98, 108, 111, 98, SP, 45, 53>>, World),
      Obj(<<98, 108, 117, 98, SP, 53>>, World),
      Obj(<<98, 108, 111, 98, 53>>, World),
      Obj(<<116, 114, 101, 101, SP, 48>>, <<>>),
      Obj(<<116, 114, 101, 101, SP, 51, 48>>, SubRecord),
      Obj(<<116, 114, 101, 101, SP, 51, 57>>,
          SubRecord \o <<52, 48, 48, 48, 48, SP, 115, 117, 98>>),
      Obj(<<99, 111, 109, 109, 105, 116, SP, 52, 54>>,
          KindTree \o <<SP>> \o HexId2 \o <<10>>),
      Obj(<<99, 111, 109, 109, 105, 116, SP, 57>>,
          <<97, 117, 116, 104, 111, 114, SP, 120, 10>>) }

ObjIds == {HexId1, HexId2}

\* The Entries parseTree can leave in a Tree: names without white space,
\* ids in hex
EntryPool ==
    { [Name |-> n, Mode |-> 100644, id |-> i] : n \in {NameA, NameSub}, i \in ObjIds }

Init ==
    /\ TreeIdle /\ CommitIdle /\ OpenIdle
    /\ store \in [ObjIds -> ObjectPool]
    /\ root \in SeqsUpTo(EntryPool, MaxEntries)
    /\ handles = [leaked |-> 0, blobs |-> 0]
    /\ head = <<>>
    /\ res = NoResult

Others == <<treeVars, commitVars, openVars>>

\* A run-time panic ends the run: no action follows res.panic.

\* Tree.Blob(name) on the served tree
Blob(name) ==
    /\ ~res.panic
    /\ LET Returned(r) ==
               /\ res' = r
               /\ handles' = IF r.err = "nil" /\ ~r.panic
                              THEN [handles EXCEPT !.blobs = @ + r.held]
                              ELSE [handles EXCEPT !.leaked = @ + r.held]
           Found(i) ==
               Returned(IF i = 0 THEN NotFound("Blob", name)
                        ELSE readBlob(name, root[i].id))
       IN Found(FindEntry(root, name))
    /\ UNCHANGED <<store, root, head, Others>>

\* Tree.Tree(name) on the served tree
Tree(name) ==
    /\ ~res.panic
    /\ LET Returned(r) ==
               /\ res' = r
               /\ handles' = [handles EXCEPT !.leaked = @ + r.held]
           Found(i) ==
               Returned(IF i = 0 THEN NotFound("Tree", name)
                        ELSE readTree("Tree", name, root[i].id))
       IN Found(FindEntry(root, name))
    /\ UNCHANGED <<store, root, head, Others>>

\* Repository.Commit(sha); main keeps the Commit it returns
RepoCommit(sha) ==
    /\ ~res.panic
    /\ LET Returned(r) ==
               /\ res' = r
               /\ handles' = [handles EXCEPT !.leaked = @ + r.held]
               /\ head' = IF r.err = "nil" /\ ~r.panic THEN <<r.ctree>> ELSE head
       IN Returned(readCommit(sha))
    /\ UNCHANGED <<store, root, Others>>

\* Commit.Tree() on the Commit held; main serves the Tree it returns
CommitTree ==
    /\ ~res.panic /\ head # <<>>
    /\ LET Returned(r) ==
               /\ res' = r
               /\ handles' = [handles EXCEPT !.leaked = @ + r.held]
               /\ root' = IF r.err = "nil" /\ ~r.panic THEN r.Entries ELSE root
       IN Returned(readTree("CommitTree", <<>>, head[1]))
    /\ UNCHANGED <<store, head, Others>>

\* The caller closes a Blob it holds
CloseBlob ==
    /\ ~res.panic /\ handles.blobs > 0
    /\ handles' = [handles EXCEPT !.blobs = @ - 1]
    /\ res' = Result("Close", <<>>)
    /\ UNCHANGED <<store, root, head, Others>>

Next ==
    \/ \E name \in Names : Blob(name)
    \/ \E name \in Names : Tree(name)
    \/ \E sha \in ObjIds : RepoCommit(sha)
    \/ CommitTree
    \/ CloseBlob

Spec == Init /\ [][Next]_vars

----------------------------------------------------------------------------
(* Claims on the navigation API, checked under Spec                        *)

\* The decimal text of n >= 0
RECURSIVE DecStr(_)
DecStr(n) == IF n < 10 THEN <<48 + n>> ELSE DecStr(n \div 10) \o <<48 + (n % 10)>>

\* The kind an object file declares: its header up to the first space
DeclaredKind(f) ==
    IF IndexByte(f.hdr, SP) < 0 THEN f.hdr ELSE Take(f.hdr, IndexByte(f.hdr, SP))

\* 'blob <L>\0' followed by exactly L bytes
WellFormedBlob(f) ==
    f.state = "zlib" /\ f.hdr = KindBlob \o <<SP>> \o DecStr(Len(f.body))

\* '<kind> <length>' with one of the three kinds and a length >= 0
ProperHeader(h) ==
    \E k \in {KindBlob, KindTree, KindCommit} :
        \E n \in 0..99 : h = k \o <<SP>> \o DecStr(n)

Wanted(op) == IF op = "Blob" THEN KindBlob ELSE KindTree

Hits(name) == { i \in 1..Len(root) : root[i].Name = name }

First(S) == CHOOSE i \in S : \A j \in S : i <= j

\* C2: Blob(name) and Tree(name) fail with not-found, opening nothing, when no
\* entry has the name; otherwise they resolve the object of the first entry
\* of that name, succeed only if it declares the wanted kind, and fail with a
\* wrong-kind error when its header was read and declares another.
C2_FirstMatchResolved ==
    res.op \in {"Blob", "Tree"} =>
        IF Hits(res.arg) = {}
        THEN res.err = "notfound" /\ res.sha = <<>> /\ res.held = 0
        ELSE /\ res.sha = root[First(Hits(res.arg))].id
             /\ res.err # "notfound"
             /\ res.err = "nil" =>
                   /\ store[res.sha].state = "zlib"
                   /\ DeclaredKind(store[res.sha]) = Wanted(res.op)
             /\ (res.hdr /\ DeclaredKind(store[res.sha]) # Wanted(res.op))
                   => res.err = "kind"

\* Blob(name) succeeded on a name that two entries with different ids carry
C2_Witness ==
    /\ res.op = "Blob" /\ res.err = "nil"
    /\ \E i, j \in Hits(res.arg) : i < j /\ root[i].id # root[j].id

\* C3: Blob on an entry naming a well-formed blob object of L body bytes
\* returns (unless the file cannot be opened) Size = L and a stream that
\* holds exactly the L body bytes.
C3_BlobSizeAndStream ==
    (res.op = "Blob" /\ res.sha # <<>> /\ WellFormedBlob(store[res.sha])
       /\ res.err # "open") =>
        /\ res.err = "nil"
        /\ res.Size = Len(store[res.sha].body)
        /\ res.stream = store[res.sha].body

\* Blob returned the 5 bytes of 'blob 5\0world'
C3_Witness ==
    /\ res.op = "Blob" /\ res.err = "nil" /\ res.sha # <<>>
    /\ res.Size = 5 /\ res.stream = World
    /\ WellFormedBlob(store[res.sha])

\* C6: readObject returns a header only when the text before the null byte
\* is '<kind> <length>' with a recognized kind and a length >= 0.
C6_HeaderRejected ==
    res.hdr => ProperHeader(store[res.sha].hdr)

\* C7: whenever Commit.Tree or Tree.Tree returns an error, the Tree returned
\* with it is nil.
C7_NoPartialTree ==
    (res.op \in {"Tree", "CommitTree"} /\ ~res.panic /\ res.err # "nil")
        => res.tree = "nil"

\* C8: a call that returns an error leaves none of the handles it opened
\* open; so does a successful Commit, Commit.Tree or Tree.Tree; a successful
\* Blob leaves exactly one.
C8_HandlesReleased ==
    res.op \in {"Commit", "CommitTree", "Tree", "Blob"} =>
        res.held = IF res.op = "Blob" /\ res.err = "nil" THEN 1 ELSE 0

----------------------------------------------------------------------------
(* Open: repository discovery                                              *)
(* A cleaned absolute path is the sequence of its components, the          *)
(* filesystem root "/" the empty one; filepath.Dir drops the last          *)
(* component.  fs[d] is what os.Stat answers for the .git of the directory *)
(* d levels below the root on the way to p: "absent" (an IsNotExist        *)
(* error), "file" (there, not a directory), "dir", or "error" (any other   *)
(* error).                                                                 *)

MaxDepth == 3

Components == <<"a", "b", "c", "d", "e", "f", "g", "h">>

Dir(pth) == Front(pth)

OpenInit ==
    /\ TreeIdle /\ NavIdle /\ CommitIdle
    /\ fs \in [0..MaxDepth -> {"absent", "file", "dir", "error"}]
    /\ start \in { Take(Components, d) : d \in 0..MaxDepth }
    /\ path = <<>>
    /\ repo = [pc |-> "abs", err |-> "nil", Root |-> <<>>]

\* filepath.Abs(p) succeeds
OpenAbs ==
    /\ repo.pc = "abs"
    /\ path' = start
    /\ repo' = [repo EXCEPT !.pc = "loop"]
    /\ UNCHANGED <<fs, start, treeVars, navVars, commitVars>>

\* filepath.Abs(p) fails (p is relative and there is no working directory)
OpenAbsFails ==
    /\ repo.pc = "abs"
    /\ repo' = [repo EXCEPT !.pc = "done", !.err = "abs"]
    /\ UNCHANGED <<fs, start, path, treeVars, navVars, commitVars>>

\* One pass of the loop, path not being the root
OpenStep ==
    /\ repo.pc = "loop" /\ path # <<>>
    /\ IF fs[Len(path)] = "error"
       THEN repo' = [repo EXCEPT !.pc = "done", !.err = "stat"] /\ path' = path
       ELSE IF fs[Len(path)] = "dir"
       THEN repo' = [repo EXCEPT !.pc = "done", !.Root = path] /\ path' = path
       ELSE repo' = repo /\ path' = Dir(path)
    /\ UNCHANGED <<fs, start, treeVars, navVars, commitVars>>

\* path is the root: the loop ends and Open reports that it found nothing
OpenGiveUp ==
    /\ repo.pc = "loop" /\ path = <<>>
    /\ repo' = [repo EXCEPT !.pc = "done", !.err = "notfound"]
    /\ path' = start
    /\ UNCHANGED <<fs, start, treeVars, navVars, commitVars>>

OpenNext == OpenAbs \/ OpenAbsFails \/ OpenStep \/ OpenGiveUp

SpecOpen == OpenInit /\ [][OpenNext]_vars

\* The depths on the chain from p up to and including the root whose .git is
\* a directory
GitDirs == { d \in 0..Len(start) : fs[d] = "dir" }

Deepest(S) == CHOOSE d \in S : \A x \in S : x <= d

\* C9: when no step fails for another reason, Open returns the nearest
\* directory on the chain from p up to and including the filesystem root that
\* holds a .git directory, and reports "could not locate" only when none
\* does.
C9_NearestGitDir ==
    (repo.pc = "done" /\ repo.err # "abs"
       /\ \A d \in 0..Len(start) : fs[d] # "error") =>
        IF GitDirs = {} THEN repo.err = "notfound"
        ELSE repo.err = "nil" /\ repo.Root = Take(start, Deepest(GitDirs))

====
